---- MODULE Spec2Model ----
(***************************************************************************)
(* Model of src/src/core.ts (ISO 3166-1 code conversion, locale registry,  *)
(* name lookup and name search) and of loadLocale (src/test.mjs 23-27).    *)
(*                                                                         *)
(* JavaScript values are records tagged by their type in field t.  A       *)
(* string is a sequence of one-character strings, so that toUpperCase,     *)
(* toLowerCase, slice, the digit test and diacritic removal are computed   *)
(* character by character as the runtime computes them.  A thrown          *)
(* TypeError is the value TypeError in the position of the result.         *)
(***************************************************************************)
EXTENDS Naturals, Sequences, FiniteSets

VARIABLES
  registeredLocales,  \* _registeredLocales: sequence of <<key, countries reference>>
  heap,               \* the countries objects, by reference: each a sequence of <<key, name>>
  input,              \* the arguments of the call made (or about to be made)
  op,                 \* the operation last called
  ret,                \* what it returned, or TypeError
  pc,                 \* position of each loadLocale call
  before              \* history: the registry, and what readers observed, before the call

vars == <<registeredLocales, heap, input, op, ret, pc, before>>

(***************************************************************************)
(* Bounds of the model.                                                    *)
(***************************************************************************)
MaxLen == 4        \* longest code string given to the conversions
MaxNum == 1840     \* largest number given to the conversions
NumLoaders == 2    \* concurrently started loadLocale calls

(***************************************************************************)
(* JavaScript values.                                                      *)
(***************************************************************************)
Undefined == [t |-> "undefined"]
Null == [t |-> "null"]
TypeError == [t |-> "throw"]
Str(s) == [t |-> "string", s |-> s]
Num(n) == [t |-> "number", n |-> n]
Bool(b) == [t |-> "boolean", b |-> b]
Arr(a) == [t |-> "array", a |-> a]
Obj(r) == [t |-> "object", ref |-> r]

\* the strings the model names
AU == <<"A", "U">>
US == <<"U", "S">>
XX == <<"X", "X">>
pt == <<"p", "t">>
PT == <<"P", "T">>
en == <<"e", "n">>
zz == <<"z", "z">>
Australia_pt == <<"A", "u", "s", "t", "r", "á", "l", "i", "a">>
Australia_plain == <<"A", "u", "s", "t", "r", "a", "l", "i", "a">>
australia_lower == <<"a", "u", "s", "t", "r", "á", "l", "i", "a">>
EUA == <<"E", "U", "A">>

\* !v
Falsy(v) ==
  \/ v.t \in {"undefined", "null"}
  \/ v.t = "string" /\ v.s = <<>>
  \/ v.t = "number" /\ v.n = 0
  \/ v.t = "boolean" /\ ~v.b

\* typeof v === "object"
TypeofObject(v) == v.t \in {"record", "object", "array", "null"}

(***************************************************************************)
(* Characters and the string built-ins the code calls.                     *)
(***************************************************************************)
Digits == <<"0", "1", "2", "3", "4", "5", "6", "7", "8", "9">>

DigitSet == {Digits[i] : i \in 1..Len(Digits)}

\* <<lower, upper>> pairs of the letters that occur in the model
CasePairs ==
  { <<"a", "A">>, <<"e", "E">>, <<"i", "I">>, <<"l", "L">>, <<"r", "R">>,
    <<"p", "P">>, <<"s", "S">>, <<"t", "T">>, <<"u", "U">>, <<"x", "X">>, <<"á", "Á">> }

\* <<accented, base>> pairs: what the diacritics package's remove() maps
DiacriticPairs == { <<"á", "a">>, <<"Á", "A">> }

MapChar(pairs, from, to, c) ==
  IF \E p \in pairs : p[from] = c
  THEN (CHOOSE p \in pairs : p[from] = c)[to]
  ELSE c

toUpperCase(s) == [i \in 1..Len(s) |-> MapChar(CasePairs, 1, 2, s[i])]

toLowerCase(s) == [i \in 1..Len(s) |-> MapChar(CasePairs, 2, 1, s[i])]

removeDiacritics(s) == [i \in 1..Len(s) |-> MapChar(DiacriticPairs, 1, 2, s[i])]

\* /^[0-9]*$/.test(s)
IsDigitString(s) == \A i \in 1..Len(s) : s[i] \in DigitSet

RECURSIVE NumberToString(_)
\* String(n) of a non-negative integer: its decimal digits
NumberToString(n) ==
  IF n < 10 THEN <<Digits[n + 1]>>
  ELSE NumberToString(n \div 10) \o <<Digits[(n % 10) + 1]>>

\* String(v)
ToString(v) ==
  CASE v.t = "string" -> v.s
    [] v.t = "number" -> NumberToString(v.n)
    [] v.t = "boolean" -> IF v.b THEN <<"t", "r", "u", "e">>
                          ELSE <<"f", "a", "l", "s", "e">>
    [] v.t = "undefined" -> <<"u", "n", "d", "e", "f", "i", "n", "e", "d">>
    [] v.t = "null" -> <<"n", "u", "l", "l">>
    [] OTHER -> <<"[", "o", "b", "j", "e", "c", "t", " ",
                  "O", "b", "j", "e", "c", "t", "]">>

\* s.slice(-3)
SliceLast3(s) == IF Len(s) <= 3 THEN s ELSE SubSeq(s, Len(s) - 2, Len(s))

(***************************************************************************)
(* The code table (codes.json): <<alpha2, alpha3, numeric>> triples.       *)
(***************************************************************************)
codes ==
  << << <<"U", "S">>, <<"U", "S", "A">>, <<"8", "4", "0">> >>,
     << <<"A", "U">>, <<"A", "U", "S">>, <<"0", "3", "6">> >> >>

\* codes.find(e => e[field] === value): the index of the first entry whose
\* field equals value, 0 when there is none
FindCode(field, value) ==
  IF \E i \in 1..Len(codes) : codes[i][field] = value
  THEN CHOOSE i \in 1..Len(codes) :
         codes[i][field] = value /\ \A j \in 1..(i - 1) : codes[j][field] # value
  ELSE 0

(***************************************************************************)
(* The code normalizer.                                                    *)
(***************************************************************************)
formatNumericCode(code) ==
  LET stringCode == IF code.t \in {"null", "undefined"} THEN <<>> ELSE ToString(code)
  IN  SliceLast3(<<"0", "0", "0">> \o stringCode)

\* code.toUpperCase() throws a TypeError unless code is a string
alpha2ToAlpha3(code) ==
  IF code.t # "string" THEN TypeError
  ELSE LET entry == FindCode(1, toUpperCase(code.s))
       IN  IF entry # 0 THEN Str(codes[entry][2]) ELSE Undefined

alpha3ToAlpha2(code) ==
  IF code.t # "string" THEN TypeError
  ELSE LET entry == FindCode(2, toUpperCase(code.s))
       IN  IF entry # 0 THEN Str(codes[entry][1]) ELSE Undefined

alpha2ToNumeric(code) ==
  IF code.t # "string" THEN TypeError
  ELSE LET entry == FindCode(1, toUpperCase(code.s))
       IN  IF entry # 0 THEN Str(codes[entry][3]) ELSE Undefined

alpha3ToNumeric(code) ==
  LET a2 == alpha3ToAlpha2(code)
  IN  IF a2 = TypeError THEN TypeError
      ELSE IF ~Falsy(a2) THEN alpha2ToNumeric(a2) ELSE Undefined

numericToAlpha2(code) ==
  LET padded == formatNumericCode(code)
      entry == FindCode(3, padded)
  IN  IF entry # 0 THEN Str(codes[entry][1]) ELSE Undefined

numericToAlpha3(code) ==
  LET a2 == numericToAlpha2(code)
  IN  IF ~Falsy(a2) THEN alpha2ToAlpha3(a2) ELSE Undefined

toAlpha3(code) ==
  IF code = Null \/ code = Undefined \/ code = Str(<<>>) THEN Undefined
  ELSE IF code.t = "string"
  THEN IF IsDigitString(code.s) THEN numericToAlpha3(code)
       ELSE IF Len(code.s) = 2 THEN alpha2ToAlpha3(Str(toUpperCase(code.s)))
       ELSE IF Len(code.s) = 3 THEN Str(toUpperCase(code.s))
       ELSE Undefined
  ELSE numericToAlpha3(code)

toAlpha2(code) ==
  IF code = Null \/ code = Undefined \/ code = Str(<<>>) THEN Undefined
  ELSE IF code.t = "string"
  THEN IF IsDigitString(code.s) THEN numericToAlpha2(code)
       ELSE IF Len(code.s) = 2 THEN Str(toUpperCase(code.s))
       ELSE IF Len(code.s) = 3 THEN alpha3ToAlpha2(Str(toUpperCase(code.s)))
       ELSE Undefined
  ELSE numericToAlpha2(code)

isValid(code) ==
  IF code = Null \/ code = Undefined \/ code = Str(<<>>) THEN Bool(FALSE)
  ELSE Bool(~Falsy(toAlpha2(code)) \/ ~Falsy(toAlpha3(code))
            \/ ~Falsy(numericToAlpha2(code)))

(***************************************************************************)
(* Plain objects: a sequence of <<key, value>> pairs with distinct keys,   *)
(* in the order Object.keys / Object.entries enumerate them (insertion     *)
(* order; no key of the model is an integer index).                        *)
(***************************************************************************)
\* obj[key], Undefined for a key the object does not have
ObjectGet(obj, key) ==
  IF \E i \in 1..Len(obj) : obj[i][1] = key
  THEN obj[CHOOSE i \in 1..Len(obj) : obj[i][1] = key][2]
  ELSE Undefined

\* { ...obj, [key]: value }: an existing key keeps its place, a new one
\* goes last
ObjectSet(obj, key, value) ==
  IF \E i \in 1..Len(obj) : obj[i][1] = key
  THEN [i \in 1..Len(obj) |-> IF obj[i][1] = key THEN <<key, value>> ELSE obj[i]]
  ELSE Append(obj, <<key, value>>)

\* delete obj[key]
ObjectDelete(obj, key) == SelectSeq(obj, LAMBDA e : e[1] # key)

ObjectKeys(obj) == [i \in 1..Len(obj) |-> obj[i][1]]

(***************************************************************************)
(* The locale registry.                                                    *)
(***************************************************************************)
\* a LocaleData argument: { locale, countries }
LocaleData(locale, countries) ==
  [t |-> "record", locale |-> locale, countries |-> countries]

\* localeData.locale and localeData.countries of any truthy value
PropLocale(v) == IF v.t = "record" THEN v.locale ELSE Undefined

PropCountries(v) == IF v.t = "record" THEN v.countries ELSE Undefined

\* registerLocale without the emptiness test of localeData.locale
registerLocale_EmptyLocaleAccepted(locales, localeData) ==
  IF Falsy(localeData) \/ ~TypeofObject(localeData)
  THEN [locales |-> locales, ret |-> TypeError]
  ELSE IF PropLocale(localeData).t # "string"
  THEN [locales |-> locales, ret |-> TypeError]
  ELSE IF Falsy(PropCountries(localeData)) \/ ~TypeofObject(PropCountries(localeData))
  THEN [locales |-> locales, ret |-> TypeError]
  ELSE [locales |-> ObjectSet(locales, PropLocale(localeData).s,
                              PropCountries(localeData)),
        ret |-> Undefined]

\* registerLocale that builds the new registry from the new entry alone,
\* without spreading the old registry into it
registerLocale_NoSpread(locales, localeData) ==
  IF Falsy(localeData) \/ ~TypeofObject(localeData)
  THEN [locales |-> locales, ret |-> TypeError]
  ELSE IF Falsy(PropLocale(localeData)) \/ PropLocale(localeData).t # "string"
  THEN [locales |-> locales, ret |-> TypeError]
  ELSE IF Falsy(PropCountries(localeData)) \/ ~TypeofObject(PropCountries(localeData))
  THEN [locales |-> locales, ret |-> TypeError]
  ELSE [locales |-> << <<PropLocale(localeData).s, PropCountries(localeData)>> >>,
        ret |-> Undefined]

\* registerLocale on the registry `locales`: the registry it leaves and
\* what it returns (Undefined) or throws (TypeError)
registerLocale(locales, localeData) ==
  IF Falsy(localeData) \/ ~TypeofObject(localeData)
  THEN [locales |-> locales, ret |-> TypeError]
  ELSE IF Falsy(PropLocale(localeData)) \/ PropLocale(localeData).t # "string"
  THEN [locales |-> locales, ret |-> TypeError]
  ELSE IF Falsy(PropCountries(localeData)) \/ ~TypeofObject(PropCountries(localeData))
  THEN [locales |-> locales, ret |-> TypeError]
  ELSE [locales |-> ObjectSet(locales, PropLocale(localeData).s,
                              PropCountries(localeData)),
        ret |-> Undefined]

isValidLanguage(lang) == lang.t = "string" /\ Len(lang.s) > 0

langs == Arr(ObjectKeys(registeredLocales))

(***************************************************************************)
(* The name resolver.                                                      *)
(***************************************************************************)
\* a[i] ?? d, for the 0-based index i of a JavaScript array
AtOr(a, i, d) == IF i + 1 <= Len(a) THEN Str(a[i + 1]) ELSE d

filterNameBy(type, countryNameList) ==
  CASE type = "official" ->
         IF countryNameList.t = "array"
         THEN AtOr(countryNameList.a, 0, Str(<<>>))
         ELSE countryNameList
    [] type = "all" ->
         IF countryNameList.t = "string"
         THEN Arr(<<countryNameList.s>>)
         ELSE countryNameList
    [] type = "alias" ->
         IF countryNameList.t = "array"
         THEN AtOr(countryNameList.a, 1, AtOr(countryNameList.a, 0, Str(<<>>)))
         ELSE countryNameList

\* options.select is "none" when the caller gives no select
getName(code, lang, options) ==
  IF ~isValidLanguage(lang) THEN Undefined
  ELSE
    LET select == IF options.select = "none" THEN "official" ELSE options.select
        codeMaps == ObjectGet(registeredLocales, toLowerCase(lang.s))
    IN  IF Falsy(codeMaps) THEN Undefined
        ELSE
          LET alpha2Code == toAlpha2(code)
          IN  IF Falsy(alpha2Code) THEN Undefined
              ELSE
                LET nameList == ObjectGet(heap[codeMaps.ref], alpha2Code.s)
                IN  IF Falsy(nameList) THEN Undefined
                    ELSE filterNameBy(select, nameList)

(***************************************************************************)
(* The name searcher.                                                      *)
(***************************************************************************)
\* the normalize function getCode builds from options.simple
Normalize(simple, s) ==
  IF simple THEN removeDiacritics(toLowerCase(s)) ELSE toLowerCase(s)

\* the predicate of the find over Object.entries(codenames)
NameMatches(value, normalizedInput, simple) ==
  IF value.t = "string" THEN Normalize(simple, value.s) = normalizedInput
  ELSE IF value.t = "array"
  THEN \E i \in 1..Len(value.a) : Normalize(simple, value.a[i]) = normalizedInput
  ELSE FALSE

\* searchCountryByName that returns the last matching entry, not the first
searchCountryByName_LastMatch(name, lang, simple) ==
  IF Falsy(name) \/ ~isValidLanguage(lang) THEN Undefined
  ELSE
    LET codenames == ObjectGet(registeredLocales, toLowerCase(lang.s))
    IN  IF Falsy(codenames) THEN Undefined
        ELSE IF name.t # "string" THEN TypeError
        ELSE
          LET entries == heap[codenames.ref]
              normalizedInput == Normalize(simple, name.s)
              hit(i) == NameMatches(entries[i][2], normalizedInput, simple)
          IN  IF \E i \in 1..Len(entries) : hit(i)
              THEN Str(entries[CHOOSE i \in 1..Len(entries) :
                         hit(i) /\ \A j \in (i + 1)..Len(entries) : ~hit(j)][1])
              ELSE Undefined

\* normalize(name) is name.toLowerCase(): a TypeError unless name is a string
searchCountryByName(name, lang, simple) ==
  IF Falsy(name) \/ ~isValidLanguage(lang) THEN Undefined
  ELSE
    LET codenames == ObjectGet(registeredLocales, toLowerCase(lang.s))
    IN  IF Falsy(codenames) THEN Undefined
        ELSE IF name.t # "string" THEN TypeError
        ELSE
          LET entries == heap[codenames.ref]
              normalizedInput == Normalize(simple, name.s)
              hit(i) == NameMatches(entries[i][2], normalizedInput, simple)
          IN  IF \E i \in 1..Len(entries) : hit(i)
              THEN Str(entries[CHOOSE i \in 1..Len(entries) :
                         hit(i) /\ \A j \in 1..(i - 1) : ~hit(j)][1])
              ELSE Undefined

\* options.type is "none" when the caller gives no type (default "alpha2")
getCode(name, lang, options) ==
  LET type == IF options.type = "none" THEN "alpha2" ELSE options.type
      a2 == searchCountryByName(name, lang, options.simple)
  IN  IF a2 = TypeError THEN TypeError
      ELSE IF Falsy(a2) THEN Undefined
      ELSE IF type = "alpha2" THEN a2
      ELSE toAlpha3(a2)

(***************************************************************************)
(* Specification SpecCodes: the conversions applied to one argument.       *)
(* Init draws the argument; each action is one call of an exported         *)
(* function on it.  The registry is not involved and stays empty.          *)
(***************************************************************************)
CodeAlphabet == {"U", "S", "A", "u", "s", "X", "0", "3", "6", "8", "4"}

StringsUpTo(alphabet, n) == UNION {[1..k -> alphabet] : k \in 0..n}

CodeInputs ==
  {Null, Undefined, Bool(TRUE), Obj(0)}
    \cup {Str(s) : s \in StringsUpTo(CodeAlphabet, MaxLen)}
    \cup {Num(n) : n \in 0..MaxNum}

Idle == [p \in 1..NumLoaders |-> [at |-> "idle"]]

InitCodes ==
  /\ registeredLocales = <<>>
  /\ heap = <<>>
  /\ input \in CodeInputs
  /\ op = "none"
  /\ ret = Undefined
  /\ pc = Idle
  /\ before = Undefined

CallAlpha2ToAlpha3 ==
  /\ op' = "alpha2ToAlpha3"
  /\ ret' = alpha2ToAlpha3(input)
  /\ UNCHANGED <<registeredLocales, heap, input, pc, before>>

CallAlpha3ToAlpha2 ==
  /\ op' = "alpha3ToAlpha2"
  /\ ret' = alpha3ToAlpha2(input)
  /\ UNCHANGED <<registeredLocales, heap, input, pc, before>>

CallAlpha2ToNumeric ==
  /\ op' = "alpha2ToNumeric"
  /\ ret' = alpha2ToNumeric(input)
  /\ UNCHANGED <<registeredLocales, heap, input, pc, before>>

CallAlpha3ToNumeric ==
  /\ op' = "alpha3ToNumeric"
  /\ ret' = alpha3ToNumeric(input)
  /\ UNCHANGED <<registeredLocales, heap, input, pc, before>>

CallNumericToAlpha2 ==
  /\ op' = "numericToAlpha2"
  /\ ret' = numericToAlpha2(input)
  /\ UNCHANGED <<registeredLocales, heap, input, pc, before>>

CallNumericToAlpha3 ==
  /\ op' = "numericToAlpha3"
  /\ ret' = numericToAlpha3(input)
  /\ UNCHANGED <<registeredLocales, heap, input, pc, before>>

CallToAlpha2 ==
  /\ op' = "toAlpha2"
  /\ ret' = toAlpha2(input)
  /\ UNCHANGED <<registeredLocales, heap, input, pc, before>>

CallToAlpha3 ==
  /\ op' = "toAlpha3"
  /\ ret' = toAlpha3(input)
  /\ UNCHANGED <<registeredLocales, heap, input, pc, before>>

CallIsValid ==
  /\ op' = "isValid"
  /\ ret' = isValid(input)
  /\ UNCHANGED <<registeredLocales, heap, input, pc, before>>

NextCodes ==
  \/ CallAlpha2ToAlpha3
  \/ CallAlpha3ToAlpha2
  \/ CallAlpha2ToNumeric
  \/ CallAlpha3ToNumeric
  \/ CallNumericToAlpha2
  \/ CallNumericToAlpha3
  \/ CallToAlpha2
  \/ CallToAlpha3
  \/ CallIsValid

SpecCodes == InitCodes /\ [][NextCodes]_vars

(***************************************************************************)
(* What the claims about the conversions take as reference.                *)
(***************************************************************************)
\* the input is a number or a string made only of digits
IsNumericInput(v) == v.t = "number" \/ (v.t = "string" /\ IsDigitString(v.s))

\* s left-padded with '0' to 3 characters (a longer s is left as it is)
PadLeft3(s) ==
  IF Len(s) >= 3 THEN s ELSE [i \in 1..(3 - Len(s)) |-> "0"] \o s

\* the index of the table entry whose numeric field is exactly s, else 0
EntryByNumeric(s) == FindCode(3, s)

\* v is an Alpha-2, Alpha-3 or numeric code of the table
IsTableCode(v) ==
  \/ /\ v.t = "string"
     /\ ~IsDigitString(v.s)
     /\ \E i \in 1..Len(codes) :
          toUpperCase(v.s) = codes[i][1] \/ toUpperCase(v.s) = codes[i][2]
  \/ /\ IsNumericInput(v)
     /\ v # Str(<<>>)
     /\ EntryByNumeric(PadLeft3(ToString(v))) # 0

\* C4: isValid(code) is true exactly when code is an Alpha-2, Alpha-3 or
\* numeric code of the code table; a two- or three-letter string that is
\* not in the table, such as "XX", gives false.
C4_IsValidIffTableCode ==
  op = "isValid" => ret = Bool(IsTableCode(input))

\* C5: isValid is false for null, undefined, the empty string and every
\* string that is not all digits and whose length is neither 2 nor 3.
C5_IsValidFalseForOtherLengths ==
  ( /\ op = "isValid"
    /\ \/ input \in {Null, Undefined}
       \/ /\ input.t = "string"
          /\ \/ input.s = <<>>
             \/ ~IsDigitString(input.s) /\ Len(input.s) \notin {2, 3} )
  => ret = Bool(FALSE)

\* C6: no conversion or lookup operation throws, whatever its input;
\* registerLocale is the only operation that can signal an error.
C6_LookupsNeverThrow ==
  op # "registerLocale" => ret # TypeError

\* C10: a numeric input resolves only by its exact 3-character zero-padded
\* form: the result is the entry whose numeric field equals the input
\* left-padded to 3 characters, and an input of more than 3 characters
\* (such as "1840" or 1840) is not found.
C10_NumericExactPaddedForm ==
  ( /\ op \in {"numericToAlpha2", "numericToAlpha3", "toAlpha2", "toAlpha3"}
    /\ IsNumericInput(input)
    /\ ~(op \in {"toAlpha2", "toAlpha3"} /\ input = Str(<<>>)) )
  => LET entry == EntryByNumeric(PadLeft3(ToString(input)))
     IN  ret = IF entry = 0 THEN Undefined
               ELSE IF op \in {"numericToAlpha2", "toAlpha2"}
               THEN Str(codes[entry][1])
               ELSE Str(codes[entry][2])

\* isValid("XX") was true
C4_FailingInput == op = "isValid" /\ input = Str(XX) /\ ret = Bool(TRUE)

\* isValid("X840") was true
C5_FailingInput ==
  op = "isValid" /\ input = Str(<<"X", "8", "4", "0">>) /\ ret = Bool(TRUE)

\* alpha2ToAlpha3(null) threw
C6_FailingInput == op = "alpha2ToAlpha3" /\ input = Null /\ ret = TypeError

\* numericToAlpha2(1840) was "US"
C10_FailingInput ==
  op = "numericToAlpha2" /\ input = Num(1840) /\ ret = Str(US)

(***************************************************************************)
(* Specification SpecRegistry: a caller that owns two countries objects,   *)
(* registers records (valid and invalid) that refer to them, and writes    *)
(* to its own objects afterwards.                                          *)
(***************************************************************************)
Refs == {1, 2}

RegistryTags == {pt, PT}

RegistryKeys == {AU}

RegistryNames == {Str(Australia_pt), Arr(<<Australia_plain, Australia_pt>>)}

RegistryRecords ==
  {Null, Undefined, Str(pt)}
    \cup {LocaleData(l, c) :
            l \in {Undefined, Str(<<>>), Num(1)} \cup {Str(g) : g \in RegistryTags},
            c \in {Undefined, Null, Str(pt)} \cup {Obj(r) : r \in Refs}}

\* what a reader of the registry can observe: the result of langs() and of
\* every getName and getCode over the codes, tags and names of the model
Observed ==
  [ langs |-> langs,
    names |-> [q \in {Str(k) : k \in RegistryKeys}
                       \X {Str(g) : g \in RegistryTags}
                       \X {"official", "all", "alias"}
                 |-> getName(q[1], q[2], [select |-> q[3]])],
    codes |-> [q \in {Str(Australia_pt), Str(Australia_plain)}
                       \X {Str(g) : g \in RegistryTags}
                       \X {"alpha2", "alpha3"}
                 |-> getCode(q[1], q[2], [type |-> q[3], simple |-> FALSE])] ]

\* the history every call of SpecRegistry records
Snapshot == [locales |-> registeredLocales, observed |-> Observed]

InitRegistry ==
  /\ registeredLocales = <<>>
  /\ heap = << << <<AU, Str(Australia_pt)>> >>,
               << <<AU, Arr(<<Australia_plain, Australia_pt>>)>> >> >>
  /\ input = Undefined
  /\ op = "none"
  /\ ret = Undefined
  /\ pc = Idle
  /\ before = Undefined

RegisterLocale ==
  /\ before' = Snapshot
  /\ \E localeData \in RegistryRecords :
       LET res == registerLocale(registeredLocales, localeData)
       IN  /\ registeredLocales' = res.locales
           /\ ret' = res.ret
           /\ op' = "registerLocale"
           /\ input' = localeData
           /\ UNCHANGED <<heap, pc>>

\* the caller assigns countries[key] = name on an object of its own
SetCountryName ==
  /\ before' = Snapshot
  /\ \E r \in Refs, key \in RegistryKeys, name \in RegistryNames :
       /\ heap' = [heap EXCEPT ![r] = ObjectSet(@, key, name)]
       /\ op' = "setCountryName"
       /\ input' = [ref |-> r, key |-> key, name |-> name]
       /\ ret' = Undefined
       /\ UNCHANGED <<registeredLocales, pc>>

\* the caller deletes countries[key] on an object of its own
DeleteCountryName ==
  /\ before' = Snapshot
  /\ \E r \in Refs, key \in RegistryKeys :
       /\ heap' = [heap EXCEPT ![r] = ObjectDelete(@, key)]
       /\ op' = "deleteCountryName"
       /\ input' = [ref |-> r, key |-> key]
       /\ ret' = Undefined
       /\ UNCHANGED <<registeredLocales, pc>>

CallLangs ==
  /\ op' = "langs"
  /\ ret' = langs
  /\ input' = Undefined
  /\ before' = Snapshot
  /\ UNCHANGED <<registeredLocales, heap, pc>>

NextRegistry ==
  \/ RegisterLocale
  \/ SetCountryName
  \/ DeleteCountryName
  \/ CallLangs

SpecRegistry == InitRegistry /\ [][NextRegistry]_vars

\* C1: the registry holds at most one entry per case-insensitive tag, keyed
\* by the lower-cased tag, with the countries of the latest registration
\* for that tag; langs() lists each lower-cased tag once and no other form.
C1_OneEntryPerLowerCasedTag ==
  /\ \A i \in 1..Len(langs.a) : langs.a[i] = toLowerCase(langs.a[i])
  /\ \A i, j \in 1..Len(langs.a) :
       toLowerCase(langs.a[i]) = toLowerCase(langs.a[j]) => i = j
  /\ (op = "registerLocale" /\ ret = Undefined)
       => ObjectGet(registeredLocales, toLowerCase(input.locale.s)) = input.countries

\* C2: registered data is an immutable snapshot: a later write by the caller
\* to the countries object it registered changes no getName, getCode or
\* langs result; only registerLocale changes what readers observe.
C2_RegisteredDataIsSnapshot ==
  op \in {"setCountryName", "deleteCountryName", "langs"}
    => Observed = before.observed

\* the record is structurally invalid: null or no object, locale missing,
\* empty or no string, countries missing, null or no object
StructurallyInvalid(v) ==
  \/ v.t # "record"
  \/ v.locale.t # "string"
  \/ v.locale.s = <<>>
  \/ v.countries.t \notin {"object", "array", "record"}

\* C3: registerLocale called with a structurally invalid record signals a
\* validation error and leaves the registry, and so every langs, getName
\* and getCode result, as it was before the call.
C3_InvalidRecordRejectedUnchanged ==
  (op = "registerLocale" /\ StructurallyInvalid(input))
    => /\ ret = TypeError
       /\ registeredLocales = before.locales
       /\ Observed = before.observed

\* registerLocale({}) was rejected while a locale was registered
C3_Witness ==
  /\ op = "registerLocale"
  /\ input = LocaleData(Undefined, Undefined)
  /\ ret = TypeError
  /\ Len(registeredLocales) > 0

\* "pt" and then "PT" were registered with different countries: two
\* entries, and langs() lists "PT"
C1_FailingInput ==
  /\ langs = Arr(<<pt, PT>>)
  /\ registeredLocales[1][2] # registeredLocales[2][2]

\* the caller changed a name in the object it had registered under "pt",
\* and getName("AU", "pt") changed with it
C2_FailingInput ==
  /\ op = "setCountryName"
  /\ ObjectKeys(registeredLocales) = <<pt>>
  /\ registeredLocales[1][2] = Obj(input.ref)
  /\ before.observed.names[<<Str(AU), Str(pt), "official">>] = Str(Australia_pt)
  /\ getName(Str(AU), Str(pt), [select |-> "official"]) = Str(Australia_plain)

(***************************************************************************)
(* Specification SpecNames: getName and getCode.  Init draws the countries *)
(* mapping the caller will register and the code or name and the language  *)
(* it will ask for; the actions register the mapping under a tag and make  *)
(* the query with each choice of options.                                  *)
(***************************************************************************)
NameKeys == {AU, XX}

NameValues ==
  { Str(Australia_pt), Str(<<>>), Arr(<<>>), Arr(<<Australia_pt>>),
    Arr(<<Australia_plain, Australia_pt>>),
    Arr(<<EUA, Australia_plain, australia_lower>>) }

\* every mapping over NameKeys: its entries in any insertion order
NameMappings ==
  { m \in UNION {[1..n -> NameKeys \X NameValues] : n \in 0..Cardinality(NameKeys)} :
      \A i, j \in 1..Len(m) : m[i][1] = m[j][1] => i = j }

NameCodes ==
  { Str(AU), Str(<<"a", "u">>), Str(<<"A", "U", "S">>), Str(<<"0", "3", "6">>),
    Num(36), Str(XX), Str(US), Str(<<"A", "U", "S", "T">>), Null }

NameLangs == {Str(pt), Str(PT), Str(zz), Str(<<>>), Null}

SearchNames ==
  { Str(Australia_pt), Str(Australia_plain), Str(australia_lower), Str(EUA),
    Str(<<>>) }

NoOptions == [select |-> "none", type |-> "none", simple |-> FALSE]

NameInputs ==
  {[code |-> c, lang |-> l, options |-> NoOptions] : c \in NameCodes, l \in NameLangs}
    \cup {[name |-> n, lang |-> l, options |-> NoOptions] :
            n \in SearchNames, l \in NameLangs}

InitNames ==
  /\ registeredLocales = <<>>
  /\ heap \in {<<m>> : m \in NameMappings}
  /\ input \in NameInputs
  /\ op = "none"
  /\ ret = Undefined
  /\ pc = Idle
  /\ before = Undefined

\* registerLocale({ locale: tag, countries }) with the caller's mapping
RegisterMapping ==
  \E tag \in RegistryTags :
    LET res == registerLocale(registeredLocales, LocaleData(Str(tag), Obj(1)))
    IN  /\ registeredLocales' = res.locales
        /\ ret' = res.ret
        /\ op' = "registerLocale"
        /\ input' = [input EXCEPT !.options = NoOptions]
        /\ UNCHANGED <<heap, pc, before>>

CallGetName ==
  /\ "code" \in DOMAIN input
  /\ \E select \in {"none", "official", "all", "alias"} :
       LET options == [NoOptions EXCEPT !.select = select]
       IN  /\ op' = "getName"
           /\ ret' = getName(input.code, input.lang, options)
           /\ input' = [input EXCEPT !.options = options]
           /\ UNCHANGED <<registeredLocales, heap, pc, before>>

CallGetCode ==
  /\ "name" \in DOMAIN input
  /\ \E type \in {"none", "alpha2", "alpha3"}, simple \in BOOLEAN :
       LET options == [NoOptions EXCEPT !.type = type, !.simple = simple]
       IN  /\ op' = "getCode"
           /\ ret' = getCode(input.name, input.lang, options)
           /\ input' = [input EXCEPT !.options = options]
           /\ UNCHANGED <<registeredLocales, heap, pc, before>>

NextNames ==
  \/ RegisterMapping
  \/ CallGetName
  \/ CallGetCode

SpecNames == InitNames /\ [][NextNames]_vars

(***************************************************************************)
(* What the claims about getName and getCode take as reference.            *)
(***************************************************************************)
\* lang is a non-empty string whose lower-cased form is a registered tag
LangRegistered(lang) ==
  /\ lang.t = "string"
  /\ lang.s # <<>>
  /\ \E i \in 1..Len(langs.a) : langs.a[i] = toLowerCase(lang.s)

\* the countries mapping registered under the lower-cased lang
MappingOf(lang) ==
  heap[registeredLocales[CHOOSE i \in 1..Len(registeredLocales) :
         registeredLocales[i][1] = toLowerCase(lang.s)][2].ref]

HasKey(m, key) == \E i \in 1..Len(m) : m[i][1] = key

StoredAt(m, key) == m[CHOOSE i \in 1..Len(m) : m[i][1] = key][2]

\* the stored name filtered by select, as section 4.3 step 5 words it
Selected(select, stored) ==
  IF stored.t = "string"
  THEN IF select = "all" THEN Arr(<<stored.s>>) ELSE stored
  ELSE IF select = "all" THEN stored
  ELSE IF select = "alias" /\ Len(stored.a) >= 2 THEN Str(stored.a[2])
  ELSE IF Len(stored.a) >= 1 THEN Str(stored.a[1])
  ELSE Str(<<>>)

\* getName's result as claimed; emptyIsAbsent: a stored empty string counts
\* as no name
NameAsClaimed(code, lang, select, emptyIsAbsent) ==
  IF ~LangRegistered(lang) THEN Undefined
  ELSE IF toAlpha2(code) = Undefined THEN Undefined
  ELSE IF ~HasKey(MappingOf(lang), toAlpha2(code).s) THEN Undefined
  ELSE IF emptyIsAbsent /\ StoredAt(MappingOf(lang), toAlpha2(code).s) = Str(<<>>)
  THEN Undefined
  ELSE Selected(IF select = "none" THEN "official" ELSE select,
                StoredAt(MappingOf(lang), toAlpha2(code).s))

\* C7 as claimed: getName is not-found for an invalid or unregistered lang,
\* a code that does not normalize, or a key absent from the mapping, and
\* otherwise the stored name filtered by select.
C7_GetNameAsClaimed ==
  op = "getName"
    => ret = NameAsClaimed(input.code, input.lang, input.options.select, FALSE)

\* C7 on every other input: with a stored empty string counted as no name,
\* getName is as claimed.
C7_GetNameEmptyStoredIsAbsent ==
  op = "getName"
    => ret = NameAsClaimed(input.code, input.lang, input.options.select, TRUE)

\* getName("AU", "pt") was not-found although the mapping registered under
\* "pt" has the key AU, with the empty string as its name
C7_FailingInput ==
  /\ op = "getName"
  /\ input.code = Str(AU)
  /\ input.lang = Str(pt)
  /\ input.options.select = "none"
  /\ ObjectKeys(registeredLocales) = <<pt>>
  /\ heap[1] = << <<AU, Str(<<>>)>> >>
  /\ ret = Undefined

\* a stored name equals name after lower-casing (and diacritic stripping
\* when simple)
SameName(stored, name, simple) ==
  LET norm(x) == IF simple THEN removeDiacritics(toLowerCase(x)) ELSE toLowerCase(x)
  IN  IF stored.t = "string" THEN norm(stored.s) = norm(name)
      ELSE \E i \in 1..Len(stored.a) : norm(stored.a[i]) = norm(name)

\* the positions of the mapping's entries that match name
Matches(m, name, simple) == {i \in 1..Len(m) : SameName(m[i][2], name, simple)}

\* the key of the first matching entry in scan order
FirstMatchKey(m, name, simple) ==
  m[CHOOSE i \in Matches(m, name, simple) :
      \A j \in Matches(m, name, simple) : i <= j][1]

TableAlpha3(key) ==
  IF \E i \in 1..Len(codes) : codes[i][1] = key
  THEN Str(codes[CHOOSE i \in 1..Len(codes) : codes[i][1] = key][2])
  ELSE Undefined

localeModules == << <<pt, LocaleData(Str(pt), Obj(1))>>,
                    <<en, LocaleData(Str(en), Obj(2))>> >>

\* the countries of the shipped language files, by reference
moduleCountries ==
  << << <<AU, Str(Australia_pt)>>, <<US, Arr(<<EUA>>)>> >>,
     << <<AU, Str(Australia_plain)>> >> >>

LoadTags == {pt, en, zz}

InitLoad ==
  /\ registeredLocales = <<>>
  /\ heap = moduleCountries
  /\ input = Undefined
  /\ op = "none"
  /\ ret = Undefined
  /\ pc = Idle
  /\ before = Undefined

\* loadLocale(lang) up to `await loader()`, or to the rejection thrown for
\* a tag with no loader
StartLoad(p) ==
  /\ pc[p].at = "idle"
  /\ \E lang \in LoadTags :
       /\ pc' = [pc EXCEPT ![p] =
                   IF Falsy(ObjectGet(localeModules, lang))
                   THEN [at |-> "rejected", lang |-> lang]
                   ELSE [at |-> "awaitLoader", lang |-> lang]]
       /\ op' = "loadLocale"
       /\ input' = Str(lang)
       /\ ret' = Undefined
  /\ UNCHANGED <<registeredLocales, heap, before>>

\* the module arrives: importLocale returns module.default, which resolves
\* the promise loadLocale awaits
ImportResolved(p) ==
  /\ pc[p].at = "awaitLoader"
  /\ pc' = [pc EXCEPT ![p] = [at |-> "awaitImport", lang |-> pc[p].lang]]
  /\ op' = "importLocale"
  /\ input' = Str(pc[p].lang)
  /\ ret' = ObjectGet(localeModules, pc[p].lang)
  /\ UNCHANGED <<registeredLocales, heap, before>>

\* loadLocale resumes: registerLocale(locale)
RegisterLoaded(p) ==
  /\ pc[p].at = "awaitImport"
  /\ LET locale == ObjectGet(localeModules, pc[p].lang)
         res == registerLocale(registeredLocales, locale)
     IN  /\ registeredLocales' = res.locales
         /\ ret' = res.ret
         /\ op' = "registerLocale"
         /\ input' = locale
         /\ pc' = [pc EXCEPT ![p] =
                     [at |-> IF res.ret = TypeError THEN "rejected" ELSE "done",
                      lang |-> pc[p].lang]]
  /\ UNCHANGED <<heap, before>>

\* a reader between any two continuations: getName("AU", lang, {select: "all"})
ReadName ==
  \E lang \in LoadTags :
    /\ op' = "getName"
    /\ input' = Str(lang)
    /\ ret' = getName(Str(AU), Str(lang), [select |-> "all"])
    /\ UNCHANGED <<registeredLocales, heap, pc, before>>

NextLoad ==
  \/ \E p \in 1..NumLoaders :
       \/ StartLoad(p)
       \/ ImportResolved(p)
       \/ RegisterLoaded(p)
  \/ ReadName

SpecLoad == InitLoad /\ [][NextLoad]_vars

\* the names shipped for AU in the language file of lang, as a sequence;
\* Undefined for a tag with no language file
ShippedName(lang) ==
  IF \E k \in 1..Len(localeModules) : localeModules[k][1] = lang
  THEN LET k == CHOOSE k \in 1..Len(localeModules) : localeModules[k][1] = lang
           stored == StoredAt(moduleCountries[localeModules[k][2].countries.ref], AU)
       IN  IF stored.t = "string" THEN Arr(<<stored.s>>) ELSE stored
  ELSE Undefined

\* C9: under any interleaving of concurrently started loadLocale calls no
\* registration is lost and no reader sees a partial update: every tag a
\* completed call loaded is registered with its own complete mapping (so
\* all of them are once all calls have completed), and at every point each
\* registered tag maps to the one complete mapping shipped for it, which is
\* what a reader gets.
C9_NoLostOrPartialRegistration ==
  /\ \A p \in 1..NumLoaders :
       pc[p].at = "done"
         => /\ \E i \in 1..Len(registeredLocales) :
                 registeredLocales[i][1] = pc[p].lang
            /\ getName(Str(AU), Str(pc[p].lang), [select |-> "all"])
                 = ShippedName(pc[p].lang)
  /\ \A i \in 1..Len(registeredLocales) :
       /\ \A j \in 1..Len(registeredLocales) :
            registeredLocales[i][1] = registeredLocales[j][1] => i = j
       /\ \E k \in 1..Len(localeModules) :
            /\ localeModules[k][1] = registeredLocales[i][1]
            /\ heap[registeredLocales[i][2].ref]
                 = moduleCountries[localeModules[k][2].countries.ref]
  /\ op = "getName" => ret \in {Undefined, ShippedName(input.s)}

\* two calls completed for different tags, the second call's registration
\* made before the first call's
C9_Witness ==
  /\ pc[1] = [at |-> "done", lang |-> pt]
  /\ pc[2] = [at |-> "done", lang |-> en]
  /\ ObjectKeys(registeredLocales) = <<en, pt>>

====
